---- MODULE Spec2Model ----
(***************************************************************************)
(* Model of jfrog (src/main.go): the configuration resolver                *)
(* (parseCommandLine, parseConfigFile), the fetcher goroutine              *)
(* (getJFrogItems), the reducer goroutine (getTopDownloads) and the        *)
(* presenter (showTopTwoDownloads) run by main, connected by the two       *)
(* unbuffered channels results_ch and items_ch.                            *)
(*                                                                         *)
(* Strings of the program are TLA+ strings.  An item's Name is modelled    *)
(* as a number: 0 is the empty string of the zero-value placeholder item,  *)
(* k > 0 is the name of the k-th item of the response.                     *)
(***************************************************************************)
EXTENDS Integers, Sequences, FiniteSets, TLC

(* Bounds of the model. *)
MaxLines == 2
MaxItems == 3
MaxCount == 3

VARIABLES
    args,        \* os.Args as seen by the flag package
    config,      \* JFrogConfig (main.go:42-47)
    file,        \* the lines of the opened configuration file
    ln, wd,      \* line_scanner position and index of the word in the line
    idx, set,    \* parseConfigFile's locals (main.go:104-105)
    pc,          \* position of main, the fetcher and the reducer
    exit,        \* process status
    stdout,      \* what was written to standard output
    stderr,      \* the messages of log.Fatal and of the flag package
    requests,    \* number of calls of client.Do
    results_ch,  \* channel of *JFrogResult
    items_ch,    \* channel of []JFrogItem
    response,    \* getJFrogItems' local results
    results,     \* getTopDownloads' local results
    i,           \* position of the range loop of getTopDownloads
    top1, top2,  \* getTopDownloads' locals
    in_top1, in_top2   \* showTopTwoDownloads' locals top1, top2

vars == <<args, config, file, ln, wd, idx, set, pc, exit, stdout, stderr, requests,
          results_ch, items_ch, response, results, i, top1, top2,
          in_top1, in_top2>>

resolverVars == <<file, ln, wd, idx, set>>
pipeVars == <<requests, results_ch, items_ch, response, results, i,
              top1, top2, in_top1, in_top2>>

Range(s) == {s[k] : k \in 1..Len(s)}

(***************************************************************************)
(* Command line.                                                           *)
(***************************************************************************)
\* argc = len(os.Args); parse is the outcome of flag.Parse: "ok", "help"
\* (-h given) or "bad" (an undefined flag).  With argc = 1 no flag is given.
ArgSets ==
    {[argc |-> 1, parse |-> "ok", conf |-> "", host |-> "", key |-> "", json |-> ""],
     [argc |-> 2, parse |-> "help", conf |-> "", host |-> "", key |-> "", json |-> ""],
     [argc |-> 2, parse |-> "bad", conf |-> "", host |-> "", key |-> "", json |-> ""]}
    \cup
    [argc : {2}, parse : {"ok"}, conf : {"", "jfrog.conf"},
     host : {"", "cliHost"}, key : {"", "cliKey"}, json : {"", "no", "yes"}]

(***************************************************************************)
(* Configuration file.  A line is [indent, words]: whether the line starts *)
(* with white space, and its white-space separated words.                  *)
(***************************************************************************)
Keys == {"api_host", "API_KEY", "api_json"}
Values == {"fileHost", "YES"}

Line(ws) == [indent |-> FALSE, words |-> ws]

Lines ==
    {Line(<<k, "=", v>>) : k \in Keys, v \in Values}
    \cup
    {Line(<<>>),
     Line(<<"#", "api_host", "=", "fileHost">>),
     [indent |-> TRUE, words |-> <<"#", "API_KEY", "=", "fileHost">>],
     Line(<<"=", "api_host", "fileHost">>),
     Line(<<"API_KEY", "fileHost">>),
     Line(<<"api_host", "=", "api_key">>)}

Files == UNION {[1..n -> Lines] : n \in 0..MaxLines}

\* strings.ToLower on the words of the model
ToLower(word) ==
    CASE word = "API_KEY" -> "api_key"
      [] word = "YES" -> "yes"
      [] word = "fileHost" -> "filehost"
      [] word = "cliHost" -> "clihost"
      [] word = "cliKey" -> "clikey"
      [] OTHER -> word

\* line == "" || line[0] == '#'  (main.go:111)
SkippedLine(line) ==
    /\ ~line.indent
    /\ \/ line.words = <<>>
       \/ line.words[1] = "#"

(***************************************************************************)
(* Process-wide effects.                                                   *)
(***************************************************************************)
Running == exit = "running"

\* log.Fatal: the message goes to standard error, then os.Exit(1)
Fatal(msg) ==
    /\ stderr' = Append(stderr, msg)
    /\ exit' = "fatal"

\* usage() writes the usage text to standard output (main.go:50-59)
usage(out) == Append(out, [kind |-> "usage"])

(***************************************************************************)
(* Configuration Resolver.                                                 *)
(***************************************************************************)
\* plen := 3 (main.go:101)
plen == 3

\* The slot ptr[idx] of parseConfigFile (main.go:102-103)
ptr(n) ==
    CASE n = 0 -> "api_host"
      [] n = 1 -> "api_key"
      [] n = 2 -> "api_json"

\* The switch of parseConfigFile on one word (main.go:117-141): the
\* configuration and the locals idx and set after the word.
ScanWordResult(cfg, ix, st, word) ==
    LET w == ToLower(word) IN
    CASE w = "api_host" ->
           [config |-> cfg, idx |-> IF cfg.api_host = "" THEN 0 ELSE ix, set |-> st]
      [] w = "api_key" ->
           [config |-> cfg, idx |-> IF cfg.api_key = "" THEN 1 ELSE ix, set |-> st]
      [] w = "api_json" ->
           [config |-> cfg, idx |-> 2, set |-> st]
      [] w = "=" ->
           [config |-> cfg, idx |-> ix, set |-> TRUE]
      [] OTHER ->
           IF (ix > -1 /\ ix < plen) /\ st
           THEN [config |-> [cfg EXCEPT ![ptr(ix)] = word], idx |-> -1, set |-> FALSE]
           ELSE [config |-> cfg, idx |-> ix, set |-> st]

\* parseCommandLine (main.go:61-78): flag.Parse fills the configuration;
\* a flag error or -h prints the usage and exits, and so does an empty
\* command line.
parseCommandLine ==
    /\ Running /\ pc.main = "parseCommandLine"
    /\ IF args.parse = "ok" /\ args.argc > 1
       THEN /\ config' = [api_conf |-> args.conf, api_host |-> args.host,
                          api_key |-> args.key, api_json |-> args.json]
            /\ pc' = [pc EXCEPT !.main = "parseConfigFile"]
            /\ UNCHANGED <<stdout, stderr, exit>>
       ELSE /\ stdout' = usage(stdout)
            /\ stderr' = IF args.parse = "bad"
                         THEN Append(stderr, "flag provided but not defined")
                         ELSE stderr
            /\ exit' = "usage"
            /\ UNCHANGED <<config, pc>>
    /\ UNCHANGED <<args, resolverVars, pipeVars>>

\* NoConfiguration printing the usage before it gives up
NoConfiguration_Usage ==
    /\ Running /\ pc.main = "parseConfigFile"
    /\ config.api_conf = ""
    /\ stdout' = usage(stdout)
    /\ Fatal("parseConfigFile: No configuration specified")
    /\ UNCHANGED <<args, config, resolverVars, pc, pipeVars>>

\* NoConfiguration letting a run go on without a file when the command
\* line gave the host and the key
NoConfiguration_Skip ==
    /\ Running /\ pc.main = "parseConfigFile"
    /\ config.api_conf = ""
    /\ IF config.api_host # "" /\ config.api_key # ""
       THEN /\ pc' = [pc EXCEPT !.main = "resolved"]
            /\ UNCHANGED <<exit, stderr>>
       ELSE /\ Fatal("parseConfigFile: No configuration specified")
            /\ UNCHANGED pc
    /\ UNCHANGED <<args, config, resolverVars, stdout, pipeVars>>

\* parseConfigFile, no configuration given (main.go:89-91)
NoConfiguration ==
    /\ Running /\ pc.main = "parseConfigFile"
    /\ config.api_conf = ""
    /\ Fatal("parseConfigFile: No configuration specified")
    /\ UNCHANGED <<args, config, resolverVars, pc, stdout, pipeVars>>

\* parseConfigFile, os.Open fails (main.go:93-96)
OpenError ==
    /\ Running /\ pc.main = "parseConfigFile"
    /\ config.api_conf # ""
    /\ Fatal("parseConfigFile: open")
    /\ UNCHANGED <<args, config, resolverVars, pc, stdout, pipeVars>>

\* parseConfigFile, os.Open succeeds (main.go:93-108)
OpenFile ==
    /\ Running /\ pc.main = "parseConfigFile"
    /\ config.api_conf # ""
    /\ \E f \in Files : file' = f
    /\ ln' = 1 /\ wd' = 0 /\ idx' = -1 /\ set' = FALSE
    /\ pc' = [pc EXCEPT !.main = "scan"]
    /\ UNCHANGED <<args, config, exit, stdout, stderr, pipeVars>>

\* One line read by line_scanner.Scan (main.go:109-116): a blank or comment
\* line is skipped, and so is a line without words.
ScanLine ==
    /\ Running /\ pc.main = "scan"
    /\ wd = 0 /\ ln <= Len(file)
    /\ IF SkippedLine(file[ln]) \/ file[ln].words = <<>>
       THEN ln' = ln + 1 /\ wd' = 0
       ELSE ln' = ln /\ wd' = 1
    /\ UNCHANGED <<args, config, file, idx, set, pc, exit, stdout, stderr, pipeVars>>

\* One word of the line (main.go:116-142)
ScanWord ==
    /\ Running /\ pc.main = "scan"
    /\ wd > 0
    /\ LET r == ScanWordResult(config, idx, set, file[ln].words[wd]) IN
         /\ config' = r.config
         /\ idx' = r.idx
         /\ set' = r.set
    /\ IF wd = Len(file[ln].words)
       THEN ln' = ln + 1 /\ wd' = 0
       ELSE ln' = ln /\ wd' = wd + 1
    /\ UNCHANGED <<args, file, pc, exit, stdout, stderr, pipeVars>>

\* End of the file: parseConfigFile returns, the deferred file.Close runs
\* and the locals go out of scope (main.go:98, 143-144).
ParseDone ==
    /\ Running /\ pc.main = "scan"
    /\ wd = 0 /\ ln > Len(file)
    /\ file' = <<>> /\ ln' = 0 /\ wd' = 0 /\ idx' = -1 /\ set' = FALSE
    /\ pc' = [pc EXCEPT !.main = "resolved"]
    /\ UNCHANGED <<args, config, exit, stdout, stderr, pipeVars>>

(***************************************************************************)
(* Items and responses.                                                    *)
(***************************************************************************)
\* JFrogItem{Stats: []JFrogStats{JFrogStats{Downloads: 0}}} (main.go:171-174)
Placeholder == [Name |-> 0, Stats |-> <<[Downloads |-> 0]>>]

\* The stats array of a decoded item: absent, or one element
StatsSet == {<<>>} \cup {<<[Downloads |-> d]>> : d \in 0..MaxCount}

\* The decoded bodies of the model: the k-th item is named k
Responses ==
    UNION {{[Items |-> [k \in 1..n |-> [Name |-> k, Stats |-> st[k]]],
             Range |-> [Start |-> 0, End |-> n, Total |-> n]]
              : st \in [1..n -> StatsSet]} : n \in 0..MaxItems}

NoResult == [Items |-> <<>>, Range |-> [Start |-> 0, End |-> 0, Total |-> 0]]

Channel == [sent |-> <<>>, closed |-> FALSE]

\* A value passes through an unbuffered channel
Pass(ch, v) == [ch EXCEPT !.sent = Append(@, v)]

(***************************************************************************)
(* Top-2-With-Ties Reducer.                                                *)
(***************************************************************************)
\* getDownloads (main.go:152-161): the first nonzero count of the items
RECURSIVE getDownloads(_)
getDownloads(items) ==
    IF items = <<>> THEN 0
    ELSE IF Head(items).Stats[1].Downloads > 0
         THEN Head(items).Stats[1].Downloads
         ELSE getDownloads(Tail(items))

\* ReduceItem with the first comparison made against the count of top2
ReduceItem_CmpTop2(t1, t2, item) ==
    LET downloads == item.Stats[1].Downloads
        top1_downloads == getDownloads(t1)
        top2_downloads == getDownloads(t2)
    IN  IF downloads > top2_downloads
        THEN [top1 |-> <<item>>, top2 |-> t2]
        ELSE IF downloads = top1_downloads
        THEN [top1 |-> Append(t1, item), top2 |-> t2]
        ELSE [top1 |-> t1, top2 |-> t2]

\* ReduceItem with independent ifs in place of the else-if chain
ReduceItem_NoElse(t1, t2, item) ==
    LET downloads == item.Stats[1].Downloads
        top1_downloads == getDownloads(t1)
        top2_downloads == getDownloads(t2)
        a == IF downloads > top1_downloads THEN <<item>>
             ELSE IF downloads = top1_downloads THEN Append(t1, item)
             ELSE t1
        b == IF downloads > top2_downloads /\ downloads # top1_downloads THEN <<item>>
             ELSE IF downloads = top2_downloads /\ downloads # top1_downloads
             THEN Append(t2, item)
             ELSE t2
    IN  [top1 |-> a, top2 |-> b]

\* ReduceItem putting a tied item in front of its group
ReduceItem_Prepend(t1, t2, item) ==
    LET downloads == item.Stats[1].Downloads
        top1_downloads == getDownloads(t1)
        top2_downloads == getDownloads(t2)
    IN  IF downloads > top1_downloads
        THEN [top1 |-> <<item>>, top2 |-> t2]
        ELSE IF downloads = top1_downloads
        THEN [top1 |-> <<item>> \o t1, top2 |-> t2]
        ELSE IF downloads > top2_downloads /\ downloads # top1_downloads
        THEN [top1 |-> t1, top2 |-> <<item>>]
        ELSE IF downloads = top2_downloads /\ downloads # top1_downloads
        THEN [top1 |-> t1, top2 |-> <<item>> \o t2]
        ELSE [top1 |-> t1, top2 |-> t2]

\* ReduceItem testing the second rank before the first
ReduceItem_Top2First(t1, t2, item) ==
    LET downloads == item.Stats[1].Downloads
        top1_downloads == getDownloads(t1)
        top2_downloads == getDownloads(t2)
    IN  IF downloads > top2_downloads
        THEN [top1 |-> t1, top2 |-> <<item>>]
        ELSE IF downloads > top1_downloads
        THEN [top1 |-> <<item>>, top2 |-> t2]
        ELSE IF downloads = top1_downloads
        THEN [top1 |-> Append(t1, item), top2 |-> t2]
        ELSE IF downloads = top2_downloads
        THEN [top1 |-> t1, top2 |-> Append(t2, item)]
        ELSE [top1 |-> t1, top2 |-> t2]

\* One iteration of the loop of getTopDownloads (main.go:177-195)
ReduceItem(t1, t2, item) ==
    LET downloads == item.Stats[1].Downloads
        top1_downloads == getDownloads(t1)
        top2_downloads == getDownloads(t2)
    IN  IF downloads > top1_downloads
        THEN [top1 |-> <<item>>, top2 |-> t2]
        ELSE IF downloads = top1_downloads
        THEN [top1 |-> Append(t1, item), top2 |-> t2]
        ELSE IF downloads > top2_downloads /\ downloads # top1_downloads
        THEN [top1 |-> t1, top2 |-> <<item>>]
        ELSE IF downloads = top2_downloads /\ downloads # top1_downloads
        THEN [top1 |-> t1, top2 |-> Append(t2, item)]
        ELSE [top1 |-> t1, top2 |-> t2]

(***************************************************************************)
(* Presenter.                                                              *)
(***************************************************************************)
\* The numbered entries of one group (main.go:290-292, 296-298)
Entries(rank, items) ==
    [k \in 1..Len(items) |->
        [kind |-> "entry", rank |-> rank, num |-> k, name |-> items[k].Name]]

\* showTopDownloadsNormal (main.go:284-299)
showTopDownloadsNormal(t1, t2) ==
    <<[kind |-> "header", rank |-> 1, downloads |-> getDownloads(t1)]>>
    \o Entries(1, t1)
    \o <<[kind |-> "header", rank |-> 2, downloads |-> getDownloads(t2)]>>
    \o Entries(2, t2)

\* showTopDownloadsJSON with the index of the last member as the range end
showTopDownloadsJSON_LastIndex(t1, t2) ==
    LET top1_length == Len(t1)
        top2_length == Len(t2)
        top1_range == [start_pos |-> 0, end_pos |-> top1_length - 1, total |-> top1_length]
        top2_range == [start_pos |-> 0, end_pos |-> top2_length - 1, total |-> top2_length]
    IN  <<[kind |-> "json",
           top_one |-> [results |-> t1, range |-> top1_range],
           top_two |-> [results |-> t2, range |-> top2_range]]>>

\* showTopDownloadsJSON (main.go:265-282)
showTopDownloadsJSON(t1, t2) ==
    LET top1_length == Len(t1)
        top2_length == Len(t2)
        top1_range == [start_pos |-> 0, end_pos |-> top1_length, total |-> top1_length]
        top2_range == [start_pos |-> 0, end_pos |-> top2_length, total |-> top2_length]
    IN  <<[kind |-> "json",
           top_one |-> [results |-> t1, range |-> top1_range],
           top_two |-> [results |-> t2, range |-> top2_range]]>>

\* show_json of showTopTwoDownloads (main.go:309-316)
show_json(cfg) ==
    /\ cfg.api_json # ""
    /\ ToLower(cfg.api_json) \in {"true", "yes", "1"}

(***************************************************************************)
(* main and the three stages.                                              *)
(***************************************************************************)
\* MakeChannels closing the channels at once, the defer forgotten
MakeChannels_CloseNow ==
    /\ Running /\ pc.main = "resolved"
    /\ results_ch' = [Channel EXCEPT !.closed = TRUE]
    /\ items_ch' = [Channel EXCEPT !.closed = TRUE]
    /\ pc' = [pc EXCEPT !.main = "goFetcher"]
    /\ UNCHANGED <<args, config, resolverVars, exit, stdout, stderr, requests,
                   response, results, i, top1, top2, in_top1, in_top2>>

\* make and defer close of the two channels (main.go:333-337)
MakeChannels ==
    /\ Running /\ pc.main = "resolved"
    /\ results_ch' = Channel
    /\ items_ch' = Channel
    /\ pc' = [pc EXCEPT !.main = "goFetcher"]
    /\ UNCHANGED <<args, config, resolverVars, exit, stdout, stderr, requests,
                   response, results, i, top1, top2, in_top1, in_top2>>

\* go getJFrogItems(results_ch, &config) (main.go:340)
GoFetcher ==
    /\ Running /\ pc.main = "goFetcher"
    /\ pc' = [pc EXCEPT !.main = "goReducer", !.fetcher = "check"]
    /\ UNCHANGED <<args, config, resolverVars, exit, stdout, stderr, pipeVars>>

\* go getTopDownloads(results_ch, items_ch) (main.go:343)
GoReducer ==
    /\ Running /\ pc.main = "goReducer"
    /\ pc' = [pc EXCEPT !.main = "recv1", !.reducer = "recv"]
    /\ UNCHANGED <<args, config, resolverVars, exit, stdout, stderr, pipeVars>>

\* getJFrogItems without host or key (main.go:215-217)
NoCredentials ==
    /\ Running /\ pc.fetcher = "check"
    /\ config.api_host = "" \/ config.api_key = ""
    /\ Fatal("getJFrogItems: NULL host or api key")
    /\ UNCHANGED <<args, config, resolverVars, pc, stdout, pipeVars>>

\* http.NewRequest rejects the URL made of the host (main.go:231-235)
NewRequestError ==
    /\ Running /\ pc.fetcher = "check"
    /\ config.api_host # "" /\ config.api_key # ""
    /\ Fatal("getJFrogItems: NewRequest")
    /\ UNCHANGED <<args, config, resolverVars, pc, stdout, pipeVars>>

\* ClientDo going on unless both the host and the key are missing
ClientDo_And ==
    /\ Running /\ pc.fetcher = "check"
    /\ ~(config.api_host = "" /\ config.api_key = "")
    /\ requests' = requests + 1
    /\ pc' = [pc EXCEPT !.fetcher = "response"]
    /\ UNCHANGED <<args, config, resolverVars, exit, stdout, stderr, results_ch,
                   items_ch, response, results, i, top1, top2, in_top1, in_top2>>

\* ClientDo sending the request a second time
ClientDo_Retry ==
    /\ Running /\ pc.fetcher = "check"
    /\ config.api_host # "" /\ config.api_key # ""
    /\ requests' = requests + 2
    /\ pc' = [pc EXCEPT !.fetcher = "response"]
    /\ UNCHANGED <<args, config, resolverVars, exit, stdout, stderr, results_ch,
                   items_ch, response, results, i, top1, top2, in_top1, in_top2>>

\* client.Do(req): the request goes out (main.go:219-244)
ClientDo ==
    /\ Running /\ pc.fetcher = "check"
    /\ config.api_host # "" /\ config.api_key # ""
    /\ requests' = requests + 1
    /\ pc' = [pc EXCEPT !.fetcher = "response"]
    /\ UNCHANGED <<args, config, resolverVars, exit, stdout, stderr, results_ch,
                   items_ch, response, results, i, top1, top2, in_top1, in_top2>>

\* client.Do returns an error (main.go:245-247)
TransportError ==
    /\ Running /\ pc.fetcher = "response"
    /\ Fatal("getJFrogItems: Do")
    /\ UNCHANGED <<args, config, resolverVars, pc, stdout, pipeVars>>

\* The status is not 200 (main.go:249-251)
BadStatus ==
    /\ Running /\ pc.fetcher = "response"
    /\ Fatal("getJFrogItems: HTTP status is not 200")
    /\ UNCHANGED <<args, config, resolverVars, pc, stdout, pipeVars>>

\* The body does not decode (main.go:255-260)
DecodeError ==
    /\ Running /\ pc.fetcher = "response"
    /\ Fatal("getJFrogItems: Decode")
    /\ UNCHANGED <<args, config, resolverVars, pc, stdout, pipeVars>>

\* Status 200 and a body that decodes (main.go:249-260)
Decoded ==
    /\ Running /\ pc.fetcher = "response"
    /\ \E r \in Responses : response' = r
    /\ pc' = [pc EXCEPT !.fetcher = "send"]
    /\ UNCHANGED <<args, config, resolverVars, exit, stdout, stderr, requests,
                   results_ch, items_ch, results, i, top1, top2, in_top1, in_top2>>

\* out <- results of the fetcher meets results := <-in of the reducer,
\* which then seeds its two groups (main.go:262, 169-174)
SendResults ==
    /\ Running /\ pc.fetcher = "send" /\ pc.reducer = "recv"
    /\ ~results_ch.closed
    /\ results_ch' = Pass(results_ch, response)
    /\ results' = response
    /\ top1' = <<Placeholder>>
    /\ top2' = <<Placeholder>>
    /\ i' = 1
    /\ pc' = [pc EXCEPT !.fetcher = "done",
                        !.reducer = IF response.Items = <<>> THEN "send1" ELSE "loop"]
    /\ UNCHANGED <<args, config, resolverVars, exit, stdout, stderr, requests,
                   items_ch, response, in_top1, in_top2>>

\* item.Stats[0] of an item without stats: index out of range, the
\* goroutine panics and the process dies (main.go:177)
ReducePanic ==
    /\ Running /\ pc.reducer = "loop"
    /\ results.Items[i].Stats = <<>>
    /\ stderr' = Append(stderr, "panic: index out of range")
    /\ exit' = "panic"
    /\ UNCHANGED <<args, config, resolverVars, pc, stdout, pipeVars>>

\* One iteration of the range loop (main.go:176-196)
Reduce ==
    /\ Running /\ pc.reducer = "loop"
    /\ results.Items[i].Stats # <<>>
    /\ LET r == ReduceItem(top1, top2, results.Items[i]) IN
         /\ top1' = r.top1
         /\ top2' = r.top2
    /\ i' = i + 1
    /\ pc' = [pc EXCEPT !.reducer = IF i = Len(results.Items) THEN "send1" ELSE "loop"]
    /\ UNCHANGED <<args, config, resolverVars, exit, stdout, stderr, requests,
                   results_ch, items_ch, response, results, in_top1, in_top2>>

\* SendTop1 with the two sends of the reducer in the other order
SendTop1_Swapped ==
    /\ Running /\ pc.reducer = "send1" /\ pc.main = "recv1"
    /\ ~items_ch.closed
    /\ items_ch' = Pass(items_ch, top2)
    /\ in_top1' = top2
    /\ pc' = [pc EXCEPT !.reducer = "send2", !.main = "recv2"]
    /\ UNCHANGED <<args, config, resolverVars, exit, stdout, stderr, requests,
                   results_ch, response, results, i, top1, top2, in_top2>>

\* out <- top1 meets top1 := <-in of showTopTwoDownloads (main.go:198, 306)
SendTop1 ==
    /\ Running /\ pc.reducer = "send1" /\ pc.main = "recv1"
    /\ ~items_ch.closed
    /\ items_ch' = Pass(items_ch, top1)
    /\ in_top1' = top1
    /\ pc' = [pc EXCEPT !.reducer = "send2", !.main = "recv2"]
    /\ UNCHANGED <<args, config, resolverVars, exit, stdout, stderr, requests,
                   results_ch, response, results, i, top1, top2, in_top2>>

\* out <- top2 meets top2 := <-in (main.go:199, 307)
SendTop2 ==
    /\ Running /\ pc.reducer = "send2" /\ pc.main = "recv2"
    /\ ~items_ch.closed
    /\ items_ch' = Pass(items_ch, top2)
    /\ in_top2' = top2
    /\ pc' = [pc EXCEPT !.reducer = "done", !.main = "show"]
    /\ UNCHANGED <<args, config, resolverVars, exit, stdout, stderr, requests,
                   results_ch, response, results, i, top1, top2, in_top1>>

\* Show writing the lower-cased output mode back into the configuration
Show_WritesConfig ==
    /\ Running /\ pc.main = "show"
    /\ stdout' = stdout \o (IF show_json(config)
                            THEN showTopDownloadsJSON(in_top1, in_top2)
                            ELSE showTopDownloadsNormal(in_top1, in_top2))
    /\ config' = [config EXCEPT !.api_json = ToLower(@)]
    /\ pc' = [pc EXCEPT !.main = "return"]
    /\ UNCHANGED <<args, resolverVars, exit, stderr, pipeVars>>

\* The rendering of showTopTwoDownloads (main.go:309-323)
Show ==
    /\ Running /\ pc.main = "show"
    /\ stdout' = stdout \o (IF show_json(config)
                            THEN showTopDownloadsJSON(in_top1, in_top2)
                            ELSE showTopDownloadsNormal(in_top1, in_top2))
    /\ pc' = [pc EXCEPT !.main = "return"]
    /\ UNCHANGED <<args, config, resolverVars, exit, stderr, pipeVars>>

\* main returns: the deferred closes run, last deferred first, and the
\* process exits with status 0 (main.go:336-337, 347)
MainReturn ==
    /\ Running /\ pc.main = "return"
    /\ items_ch' = [items_ch EXCEPT !.closed = TRUE]
    /\ results_ch' = [results_ch EXCEPT !.closed = TRUE]
    /\ exit' = "ok"
    /\ pc' = [pc EXCEPT !.main = "done"]
    /\ UNCHANGED <<args, config, resolverVars, stdout, stderr, requests,
                   response, results, i, top1, top2, in_top1, in_top2>>

Init ==
    /\ args \in ArgSets
    /\ config = [api_conf |-> "", api_host |-> "", api_key |-> "", api_json |-> ""]
    /\ file = <<>> /\ ln = 0 /\ wd = 0 /\ idx = -1 /\ set = FALSE
    /\ pc = [main |-> "parseCommandLine", fetcher |-> "unstarted", reducer |-> "unstarted"]
    /\ exit = "running"
    /\ stdout = <<>>
    /\ stderr = <<>>
    /\ requests = 0
    /\ results_ch = Channel
    /\ items_ch = Channel
    /\ response = NoResult
    /\ results = NoResult
    /\ i = 0
    /\ top1 = <<>> /\ top2 = <<>>
    /\ in_top1 = <<>> /\ in_top2 = <<>>

Next ==
    \/ parseCommandLine
    \/ NoConfiguration
    \/ OpenError
    \/ OpenFile
    \/ ScanLine
    \/ ScanWord
    \/ ParseDone
    \/ MakeChannels
    \/ GoFetcher
    \/ GoReducer
    \/ NoCredentials
    \/ NewRequestError
    \/ ClientDo
    \/ TransportError
    \/ BadStatus
    \/ DecodeError
    \/ Decoded
    \/ SendResults
    \/ ReducePanic
    \/ Reduce
    \/ SendTop1
    \/ SendTop2
    \/ Show
    \/ MainReturn

Spec == Init /\ [][Next]_vars

(***************************************************************************)
(* Vocabulary of the properties.                                           *)
(***************************************************************************)
\* The input of the reducer and the download count of its k-th item
input == results.Items
Count(k) == input[k].Stats[1].Downloads

\* The loop of getTopDownloads has run over the whole input
ReducerFinished == pc.reducer \in {"send1", "send2", "done"}

Counts == {Count(k) : k \in 1..Len(input)}
AllPositive == \A k \in 1..Len(input) : Count(k) > 0

Max(S) == IF S = {} THEN 0 ELSE CHOOSE m \in S : \A x \in S : x <= m

\* The highest count below the maximum, 0 when there is none
SecondDistinct == Max({c \in Counts : c < Max(Counts)})

\* parseCommandLine and parseConfigFile have returned
Resolved == pc.main \notin {"parseCommandLine", "parseConfigFile", "scan"}

\* The value the command line gave for a field of the configuration
CommandLine(f) ==
    CASE f = "api_host" -> args.host
      [] f = "api_key" -> args.key
      [] f = "api_json" -> args.json

Fields == {"api_host", "api_key", "api_json"}

\* The members of a group that are not the seed of the group
Genuine(g) == SelectSeq(g, LAMBDA m : m # Placeholder)

\* The rendering is on standard output
Rendered == pc.main \in {"return", "done"}

\* The group the presenter holds for a rank, and how many members of it
\* the rendering shows as items
Group(rank) == IF rank = 1 THEN in_top1 ELSE in_top2
Shown(rank) ==
    IF stdout # <<>> /\ stdout[1].kind = "json"
    THEN Len(IF rank = 1 THEN stdout[1].top_one.results ELSE stdout[1].top_two.results)
    ELSE Cardinality({k \in 1..Len(stdout) :
                        stdout[k].kind = "entry" /\ stdout[k].rank = rank})

\* Every group that went through items_ch, one after the other
RECURSIVE Flatten(_)
Flatten(groups) ==
    IF groups = <<>> THEN <<>> ELSE Head(groups) \o Flatten(Tail(groups))

Handed == Flatten(items_ch.sent)

(***************************************************************************)
(* Properties.                                                             *)
(***************************************************************************)
\* C1: for every input of items with downloads > 0, in every order, the
\* count of the top2 group the reducer ends with is the second-highest
\* distinct count of the input, and it is 0 only when the input has fewer
\* than two distinct nonzero counts.
C1_Top2IsSecondDistinct ==
    (ReducerFinished /\ AllPositive) =>
        /\ getDownloads(top2) = SecondDistinct
        /\ getDownloads(top2) = 0 => Cardinality(Counts \ {0}) < 2

\* C2: the count of the top1 group the reducer ends with is the maximum
\* count of the input, and it is 0 exactly when the input is empty or every
\* item has count 0.
C2_Top1IsMax ==
    ReducerFinished =>
        /\ getDownloads(top1) = Max(Counts \cup {0})
        /\ getDownloads(top1) = 0 <=>
              (input = <<>> \/ \A k \in 1..Len(input) : Count(k) = 0)

\* C2 witness: the reducer finished an input whose maximum comes after a
\* smaller nonzero count and after a zero count.
C2_Witness ==
    /\ ReducerFinished
    /\ \E j, k, l \in 1..Len(input) :
          /\ j < l /\ k < l
          /\ Count(j) = 0 /\ Count(k) > 0 /\ Count(k) < Count(l)
          /\ getDownloads(top1) = Count(l)

\* C3: after the reducer finished an input with downloads > 0, top1 holds
\* every input item whose count is top1's count and top2 holds every input
\* item whose count is top2's count.
C3_TieComplete ==
    (ReducerFinished /\ AllPositive) =>
        \A k \in 1..Len(input) :
            /\ Count(k) = getDownloads(top1) => input[k] \in Range(top1)
            /\ Count(k) = getDownloads(top2) => input[k] \in Range(top2)

\* C4: for every nonempty input, every input item that is in neither final
\* group has a count strictly below top2's count, or strictly below top1's
\* count when top2 stayed empty-equivalent.
C4_DiscardedBelow ==
    (ReducerFinished /\ input # <<>>) =>
        \A k \in 1..Len(input) :
            input[k] \notin (Range(top1) \cup Range(top2)) =>
                Count(k) < (IF getDownloads(top2) = 0
                            THEN getDownloads(top1)
                            ELSE getDownloads(top2))

\* C5: for host, api_key and output_mode, a non-empty value of the command
\* line is the resolved value after parseConfigFile, whatever the file holds.
C5_CommandLineWins ==
    Resolved =>
        \A f \in Fields : CommandLine(f) # "" => config[f] = CommandLine(f)

\* C6: a field the command line did not give takes the first value the file
\* assigns to it; a later assignment in the file does not change it.
C6_FirstFileValueWins ==
    [][\A f \in Fields :
          (pc.main = "scan" /\ CommandLine(f) = "" /\ config[f] # "")
              => config'[f] = config[f]]_vars

\* C7: for the single-item and the empty input, a group without genuine
\* items is rendered with no numbered entry (text) and no results element
\* (JSON): the placeholder is never rendered as an item.
C7_PlaceholderNotRendered ==
    (Rendered /\ Len(input) <= 1) =>
        \A rank \in {1, 2} : Genuine(Group(rank)) = <<>> => Shown(rank) = 0

\* C8 as stated, already on the nonempty inputs the query can return (every
\* item with downloads > 0): every member of the groups the reducer hands to
\* the presenter is an item of the input.
C8_MembersAreInput ==
    (ReducerFinished /\ input # <<>> /\ AllPositive) =>
        \A k \in 1..Len(Handed) : Handed[k] \in Range(input)

\* C8 amended: for every nonempty input, every member of the groups the
\* reducer hands to the presenter is an item of the input or the zero-count
\* placeholder the group was seeded with, and no input item is handed over
\* twice.
C8_MembersAreInputOrPlaceholder ==
    input # <<>> =>
        /\ \A k \in 1..Len(Handed) :
              Handed[k] \in Range(input) \cup {Placeholder}
        /\ \A j, k \in 1..Len(Handed) :
              (j # k /\ Handed[j] = Handed[k]) => Handed[j] = Placeholder

\* C8 witness: both groups were handed over for an input of three items or
\* more, the first with a tie and the second holding only the placeholder.
C8_Witness ==
    /\ Len(items_ch.sent) = 2
    /\ Len(input) >= 3
    /\ Len(Genuine(items_ch.sent[1])) >= 2
    /\ items_ch.sent[2] = <<Placeholder>>

\* C9: when the resolver or the fetcher fails fatally nothing is on standard
\* output, and a rendering is on standard output only after the presenter
\* received both groups.
C9_NoPartialResult ==
    /\ exit = "fatal" => stdout = <<>>
    /\ (\E k \in 1..Len(stdout) : stdout[k].kind \in {"header", "entry", "json"}) =>
          /\ Len(items_ch.sent) = 2
          /\ in_top1 = items_ch.sent[1]
          /\ in_top2 = items_ch.sent[2]

\* C9 witness: the fetcher failed after its request went out, with the
\* reducer and the presenter started and waiting.
C9_Witness ==
    /\ exit = "fatal"
    /\ requests = 1
    /\ pc.reducer = "recv"
    /\ pc.main = "recv1"

\* C10: the fetcher sends one result set on results_ch, the reducer sends
\* two groups on items_ch and only after it received the result set, and
\* the presenter receives top1 first and top2 second.
C10_Handoff ==
    /\ Len(results_ch.sent) <= 1
    /\ Len(items_ch.sent) <= 2
    /\ Len(items_ch.sent) > 0 =>
          /\ results_ch.sent = <<results>>
          /\ ReducerFinished
    /\ Len(items_ch.sent) >= 1 => (items_ch.sent[1] = top1 /\ in_top1 = top1)
    /\ Len(items_ch.sent) >= 2 => (items_ch.sent[2] = top2 /\ in_top2 = top2)
    /\ exit = "ok" => (Len(results_ch.sent) = 1 /\ Len(items_ch.sent) = 2)

\* C10 witness: a run ended well in which the two groups differ and the
\* first holds a tie.
C10_Witness ==
    /\ exit = "ok"
    /\ in_top1 # in_top2
    /\ Len(in_top1) >= 2
    /\ Genuine(in_top2) # <<>>

\* g is a subsequence of s
RECURSIVE IsSubseq(_, _)
IsSubseq(g, s) ==
    IF g = <<>> THEN TRUE
    ELSE IF s = <<>> THEN FALSE
    ELSE IF Head(g) = Head(s) THEN IsSubseq(Tail(g), Tail(s))
    ELSE IsSubseq(g, Tail(s))

\* C11 as stated: for every input, each group the reducer emits is a
\* subsequence of the input (its members are in input order).
C11_GroupsAreSubsequences ==
    \A k \in 1..Len(items_ch.sent) : IsSubseq(items_ch.sent[k], input)

\* C11 amended: for every input, the members of each emitted group other
\* than the zero-count placeholder the group was seeded with are a
\* subsequence of the input, and the placeholder, where it is still in the
\* group, is the first member.
C11_GenuineMembersInInputOrder ==
    \A k \in 1..Len(items_ch.sent) :
        /\ IsSubseq(Genuine(items_ch.sent[k]), input)
        /\ \A j \in 2..Len(items_ch.sent[k]) : items_ch.sent[k][j] # Placeholder

\* C11 witness: both groups were emitted, top1 holding the first and the
\* third item of the input, tied, and top2 the item between them.
C11_Witness ==
    /\ Len(items_ch.sent) = 2
    /\ Len(input) = 3
    /\ items_ch.sent[1] = <<input[1], input[3]>>
    /\ items_ch.sent[2] = <<input[2]>>

\* The command line was parsed and gave no -conf
NoConfPath == args.parse = "ok" /\ args.argc > 1 /\ args.conf = ""

\* C12: without a configuration-file path the run fails fatally in the
\* resolver before the fetcher is started, also when the command line gave
\* host and key, and no request is issued.
C12_NoConfIsFatalInResolver ==
    NoConfPath =>
        /\ pc.main \in {"parseCommandLine", "parseConfigFile"}
        /\ pc.fetcher = "unstarted" /\ pc.reducer = "unstarted"
        /\ requests = 0
        /\ exit \in {"running", "fatal"}
        /\ exit = "fatal" =>
              stderr = <<"parseConfigFile: No configuration specified">>
        /\ (pc.main = "parseConfigFile" /\ exit = "running") =>
              config.api_conf = ""

\* C12 witness: the run ended fatally with host and key given on the command
\* line and no -conf.
C12_Witness ==
    /\ NoConfPath
    /\ args.host # "" /\ args.key # ""
    /\ exit = "fatal"

\* The merged configuration lacks the host or the key
MissingCredential == config.api_host = "" \/ config.api_key = ""

\* C13: when the merged configuration lacks the host or the key, the
\* fetcher fails fatally: it issues no request and hands no result set to
\* the reducer.
C13_NoCredentialNoRequest ==
    (Resolved /\ MissingCredential) =>
        /\ requests = 0
        /\ results_ch.sent = <<>>
        /\ pc.fetcher \in {"unstarted", "check"}
        /\ pc.reducer \in {"unstarted", "recv"}
        /\ exit \in {"running", "fatal"}
        /\ exit = "fatal" =>
              stderr = <<"getJFrogItems: NULL host or api key">>

\* C13 witness: the fetcher ended the run for a missing host that the file
\* did not supply, with the reducer already waiting for the result set.
C13_Witness ==
    /\ Resolved
    /\ config.api_host = "" /\ config.api_key # ""
    /\ exit = "fatal"
    /\ pc.reducer = "recv"

\* C14: a run issues at most one request, exactly one when it ends well,
\* and only after parseCommandLine and parseConfigFile have returned.
C14_OneRequestAfterResolver ==
    /\ requests <= 1
    /\ requests > 0 => Resolved
    /\ exit = "ok" => requests = 1

\* C14 witness: a run ended well, with its one request issued.
C14_Witness ==
    /\ exit = "ok"
    /\ requests = 1
    /\ Rendered

\* The rendering on standard output is the JSON document
RenderedJSON == Rendered /\ stdout # <<>> /\ stdout[1].kind = "json"

\* C15: in JSON mode the range of top_one and of top_two has start 0 and
\* both end and total equal to the number of members of the group the
\* presenter received, which are the results of that range.
C15_JSONRange ==
    RenderedJSON =>
        /\ Len(stdout) = 1
        /\ stdout[1].top_one.results = in_top1
        /\ stdout[1].top_two.results = in_top2
        /\ stdout[1].top_one.range =
              [start_pos |-> 0, end_pos |-> Len(in_top1), total |-> Len(in_top1)]
        /\ stdout[1].top_two.range =
              [start_pos |-> 0, end_pos |-> Len(in_top2), total |-> Len(in_top2)]

\* C15 witness: the JSON rendering of a top1 of two members and a top2 of
\* one member, all of them items of the input, with totals 2 and 1.
C15_Witness ==
    /\ RenderedJSON
    /\ Len(Genuine(in_top1)) = 2 /\ Len(in_top1) = 2
    /\ Len(Genuine(in_top2)) = 1 /\ Len(in_top2) = 1
    /\ stdout[1].top_one.range.total = 2
    /\ stdout[1].top_two.range.total = 1

\* C16: once the resolver has returned, no step of the fetcher, the reducer
\* or the presenter changes a field of the configuration.
C16_ConfigReadOnly ==
    [][Resolved => config' = config]_vars

\* C16 witness: a run ended well with a configuration whose host and output
\* mode came from the file, after the fetcher and the presenter read it.
C16_Witness ==
    /\ exit = "ok"
    /\ config.api_host = "fileHost"
    /\ config.api_json = "YES"
    /\ requests = 1
    /\ RenderedJSON

\* The fetch succeeded: the body was decoded into a result set
FetchSucceeded == pc.fetcher \in {"send", "done"}

\* The number of renderings on standard output
Renderings ==
    Cardinality({k \in 1..Len(stdout) :
                    \/ stdout[k].kind = "json"
                    \/ stdout[k].kind = "header" /\ stdout[k].rank = 1})

\* No task of a running process is blocked for ever: some step is enabled
NoDeadlock == Running => ENABLED Next

\* C17: every run terminates without deadlock, and a run whose fetch
\* succeeded ends with the fetcher, the reducer and the presenter complete
\* and exactly one rendering produced.
C17_TerminatesComplete ==
    /\ NoDeadlock
    /\ (~Running /\ FetchSucceeded) =>
          /\ pc.fetcher = "done" /\ pc.reducer = "done" /\ pc.main = "done"
          /\ Renderings = 1

\* The words the scanner meets in a file, in order: those of the lines it
\* does not skip
RECURSIVE FileWords(_)
FileWords(f) ==
    IF f = <<>> THEN <<>>
    ELSE (IF SkippedLine(Head(f)) THEN <<>> ELSE Head(f).words) \o FileWords(Tail(f))

\* The scanner is about to switch on a word, the ScanPos-th it meets
AtWord == pc.main = "scan" /\ wd > 0
ScanPos == Len(FileWords(SubSeq(file, 1, ln - 1))) + wd

\* The field of the last key among the first n words, "" when there is none
RECURSIVE LastKey(_, _)
LastKey(ws, n) ==
    IF n = 0 THEN ""
    ELSE IF ToLower(ws[n]) \in Fields THEN ToLower(ws[n])
    ELSE LastKey(ws, n - 1)

\* C18: while the file is scanned, a field is written only by the word
\* right after a `=`, the field written is that of the most recently
\* recognized key, and the word after a `=` always leaves set false.
C18_MicroGrammar ==
    [][AtWord =>
        LET ws == FileWords(file)
            afterEquals == ScanPos > 1 /\ ws[ScanPos - 1] = "="
        IN  /\ config' # config => afterEquals
            /\ \A f \in Fields :
                  config'[f] # config[f] => f = LastKey(ws, ScanPos - 1)
            /\ afterEquals => ~set']_vars

\* The reducer holds its two groups: it has received the result set
ReducerHoldsGroups == pc.reducer \in {"loop", "send1", "send2", "done"}

\* C19: after every prefix of the input, a nonzero count of top1 is
\* strictly above the count of top2, so no count equals both.
C19_Top1AboveTop2 ==
    (ReducerHoldsGroups /\ getDownloads(top1) # 0) =>
        getDownloads(top1) > getDownloads(top2)

\* C19 witness: in the middle of the input both groups have a nonzero
\* count and the next item ties with top2.
C19_Witness ==
    /\ pc.reducer = "loop"
    /\ i > 2
    /\ getDownloads(top2) > 0
    /\ results.Items[i].Stats # <<>>
    /\ results.Items[i].Stats[1].Downloads = getDownloads(top2)

\* C20: the channels are closed only after the fetcher's send and both
\* sends of the reducer are complete; no task is about to send on, or
\* waits to receive from, a closed channel.
C20_CloseAfterSends ==
    /\ (results_ch.closed \/ items_ch.closed) =>
          /\ Len(results_ch.sent) = 1 /\ Len(items_ch.sent) = 2
          /\ pc.fetcher = "done" /\ pc.reducer = "done"
          /\ pc.main = "done"
    /\ pc.fetcher = "send" => ~results_ch.closed
    /\ pc.reducer = "recv" => ~results_ch.closed
    /\ pc.reducer \in {"send1", "send2"} => ~items_ch.closed
    /\ pc.main \in {"recv1", "recv2"} => ~items_ch.closed

\* C20 witness: main returned and both channels are closed.
C20_Witness ==
    /\ results_ch.closed /\ items_ch.closed
    /\ exit = "ok"

====
